---- MODULE Spec2Model ----
(***************************************************************************)
(* Cash-flow risk assessment engine (src/script.js).                       *)
(*                                                                         *)
(* A JavaScript number is modelled as an exact rational [n |-> numerator,  *)
(* d |-> denominator] with d > 0.  Scores are sampled on a grid of         *)
(* 1/Resolution of a point, so that non-integer scores (accepted by the    *)
(* CSV path through parseFloat) are covered.                               *)
(***************************************************************************)
EXTENDS Integers, Sequences, FiniteSets, TLC

VARIABLES
    customer,     \* the record given to the decision engine
    pc,           \* the function that has been called, "ready" before the call
    ret,          \* its result
    args,         \* its arguments
    AppState,     \* the global state of the page (lines 36-60)
    uploadStatus, \* the element with id uploadStatus: its text and its class
    timers,       \* the times at which the pending timeouts are due
    now,          \* the time since the page was loaded, in milliseconds
    shownAt,      \* the time of the last call of showUploadStatus, -1 before it
    searchInput,  \* the value of the input with id searchInput
    filterRisk    \* the value of the select with id filterRisk

vars ==
    <<customer, pc, ret, args, AppState, uploadStatus, timers, now, shownAt,
      searchInput, filterRisk>>

\* the state of the page
page == <<AppState, uploadStatus, timers, now, shownAt, searchInput, filterRisk>>

\* the controls above the table
inputs == <<searchInput, filterRisk>>

\* the state of the calls of the engine's functions
engine == <<customer, pc, ret, args>>

-----------------------------------------------------------------------------
(* Bounds of the model                                                     *)

\* scores are sampled in steps of 1/Resolution of a point
Resolution == 100

\* number of grid steps sampled just below each tier threshold
Delta == 1

\* Math.random() is sampled at the points k / RandomGrid of [0, 1)
RandomGrid == 36

\* generateSampleData is called with counts 0..MaxCount
MaxCount == 2

\* a batch holds 0..SmallMax records of each sampled kind
SmallMax == 3

\* the large batches hold 10 * LargeScale + 1 records
LargeScale == 100

\* the Load Sample Data button generates SampleSize records (100 in the code)
SampleSize == 2

\* time advances in steps of TimeStep milliseconds, up to MaxTime
TimeStep == 1000

MaxTime == 6000

\* the table shows ItemsPerPage records on a page (15 in the code)
ItemsPerPage == 1

\* the page buttons are followed up to page MaxPage
MaxPage == 3

-----------------------------------------------------------------------------
(* The page as loaded                                                      *)

\* sortConfig.column before a column is chosen
null == "null"

\* the page as loaded: lines 36-60, and an empty status with no timeout pending
InitPage ==
    /\ AppState = [rawData       |-> <<>>,
                   processedData |-> <<>>,
                   filteredData  |-> <<>>,
                   sortConfig    |-> [column |-> null, direction |-> "asc"],
                   pagination    |-> [currentPage |-> 1, itemsPerPage |-> ItemsPerPage]]
    /\ uploadStatus = [textContent |-> "", className |-> "upload-status"]
    /\ timers = {}
    /\ now = 0
    /\ shownAt = 0 - 1
    /\ searchInput = ""
    /\ filterRisk = "all"

-----------------------------------------------------------------------------
(* Numbers                                                                 *)

Num(k) == [n |-> k, d |-> 1]

Add(a, b) ==
    IF a.d = b.d THEN [n |-> a.n + b.n, d |-> a.d]
    ELSE [n |-> a.n * b.d + b.n * a.d, d |-> a.d * b.d]

Times(a, k) == [n |-> a.n * k, d |-> a.d]

DivBy(a, k) == [n |-> a.n, d |-> a.d * k]

\* 0/0, the result of dividing zero by zero
IsNaN(a) == a.d = 0

\* a >= k for an integer k, the comparison of lines 112-114 and 126-128;
\* every comparison with NaN is false
Geq(a, k) == a.d > 0 /\ a.n >= k * a.d

\* a < b; every comparison with NaN is false
LessThan(a, b) ==
    /\ a.d > 0
    /\ b.d > 0
    /\ IF a.d = b.d THEN a.n < b.n ELSE a.n * b.d < b.n * a.d

\* the callback applied from left to right to the elements from..to, starting
\* from acc; the range is halved only to keep the evaluation shallow
RECURSIVE reduceRange(_, _, _, _, _)
reduceRange(op(_, _), array, from, to, acc) ==
    IF from > to THEN acc
    ELSE IF from = to THEN op(acc, array[from])
    ELSE LET mid == (from + to) \div 2
             left == reduceRange(op, array, from, mid, acc)
         IN  \* the test is always true: it makes the left half a value first
             IF left = left THEN reduceRange(op, array, mid + 1, to, left) ELSE left

\* Array.prototype.reduce over the elements from.., with an initial value
reduce(op(_, _), array, from, acc) == reduceRange(op, array, from, Len(array), acc)

\* Array.prototype.filter followed by .length
filterLength(array, keep(_)) == Cardinality({i \in 1..Len(array) : keep(array[i])})

\* the number itself, with all its decimals
toFixed1_Exact(a) == a

\* Number.prototype.toFixed(1) of a non-negative number, read back as a number:
\* the nearest multiple of 0.1, the larger one of two equally near
toFixed1(a) == [n |-> (2 * 10 * a.n + a.d) \div (2 * a.d), d |-> 10]

\* Math.round with ties away from zero: not what JavaScript does
MathRound_HalfAwayFromZero(a) ==
    IF a.n >= 0 THEN (2 * a.n + a.d) \div (2 * a.d)
    ELSE 0 - ((2 * (0 - a.n) + a.d) \div (2 * a.d))

\* Math.round(x) = floor(x + 0.5): ties go toward +infinity
MathRound(a) == (2 * a.n + a.d) \div (2 * a.d)

-----------------------------------------------------------------------------
(* Configuration                                                           *)

RISK_THRESHOLDS == [low |-> 70, moderate |-> 50, elevated |-> 35, high |-> 0]

-----------------------------------------------------------------------------
(* Utility functions                                                       *)

getRiskLevel(score) ==
    IF Geq(score, RISK_THRESHOLDS.low) THEN "Low Risk"
    ELSE IF Geq(score, RISK_THRESHOLDS.moderate) THEN "Moderate Risk"
    ELSE IF Geq(score, RISK_THRESHOLDS.elevated) THEN "Elevated Risk"
    ELSE "High Risk"

\* the boundary score 70 itself is not yet low
getCriteriaRisk_StrictLow(score) ==
    IF score.n > RISK_THRESHOLDS.low * score.d THEN "low"
    ELSE IF Geq(score, RISK_THRESHOLDS.moderate) THEN "moderate"
    ELSE IF Geq(score, RISK_THRESHOLDS.elevated) THEN "elevated"
    ELSE "high"

\* the labels of the two middle bands are exchanged
getCriteriaRisk_SwappedLabels(score) ==
    IF Geq(score, RISK_THRESHOLDS.low) THEN "low"
    ELSE IF Geq(score, RISK_THRESHOLDS.moderate) THEN "elevated"
    ELSE IF Geq(score, RISK_THRESHOLDS.elevated) THEN "moderate"
    ELSE "high"

getCriteriaRisk(score) ==
    IF Geq(score, RISK_THRESHOLDS.low) THEN "low"
    ELSE IF Geq(score, RISK_THRESHOLDS.moderate) THEN "moderate"
    ELSE IF Geq(score, RISK_THRESHOLDS.elevated) THEN "elevated"
    ELSE "high"

\* lines 156-161: the four criterion categories of a customer
criteriaRisks(c) ==
    [transaction   |-> getCriteriaRisk(c.transaction_history),
     affordability |-> getCriteriaRisk(c.affordability),
     employment    |-> getCriteriaRisk(c.employment),
     behavior      |-> getCriteriaRisk(c.behavior)]

\* lines 163-173: how many of the four criteria fall in each category
countRisks(risks) ==
    [r \in {"low", "moderate", "elevated", "high"} |->
        Cardinality({k \in DOMAIN risks : risks[k] = r})]

\* line 176
anyHighRisk(risks, riskCounts) == riskCounts.high > 0

\* exactly two Elevated criteria, so that three or four of them are let through
twoOrMoreElevated_ExactlyTwo(risks, riskCounts) == riskCounts.elevated = 2

\* line 181
twoOrMoreElevated(risks, riskCounts) == riskCounts.elevated >= 2

\* the elevated criterion is not required to be affordability
elevatedAffordabilityThreeModerate_AnyCriterion(risks, riskCounts) ==
    riskCounts.elevated = 1 /\ riskCounts.moderate = 3

\* line 186
elevatedAffordabilityThreeModerate(risks, riskCounts) ==
    risks.affordability = "elevated" /\ riskCounts.moderate = 3

\* line 191
allLowRisk(risks, riskCounts) == riskCounts.low = 4

\* three Low criteria are demanded instead of two
twoPlusLowRestModerate_ThreeLow(risks, riskCounts) ==
    riskCounts.low >= 3 /\ riskCounts.elevated = 0

\* the test that no criterion is Elevated is left out
twoPlusLowRestModerate_NoElevatedTest(risks, riskCounts) ==
    riskCounts.low >= 2

\* line 196
twoPlusLowRestModerate(risks, riskCounts) ==
    riskCounts.low >= 2 /\ riskCounts.elevated = 0

\* the comparison is off by one: one Elevated criterion is not enough
singleElevated_OffByOne(risks, riskCounts) == riskCounts.elevated > 1

\* line 201
singleElevated(risks, riskCounts) == riskCounts.elevated = 1

\* the second Auto-Deny rule returns the hyphenated heading of the README
determineDecision_HyphenLabel(c) ==
    LET risks == criteriaRisks(c)
        riskCounts == countRisks(risks)
    IN  IF anyHighRisk(risks, riskCounts) THEN "Auto Deny"
        ELSE IF twoOrMoreElevated(risks, riskCounts) THEN "Auto-Deny"
        ELSE IF elevatedAffordabilityThreeModerate(risks, riskCounts) THEN "Auto Deny"
        ELSE IF allLowRisk(risks, riskCounts) THEN "Auto Approve"
        ELSE IF twoPlusLowRestModerate(risks, riskCounts) THEN "Auto Approve"
        ELSE IF singleElevated(risks, riskCounts) THEN "Elevated Risk"
        ELSE "Manual Review"

determineDecision(c) ==
    LET risks == criteriaRisks(c)
        riskCounts == countRisks(risks)
    IN  IF anyHighRisk(risks, riskCounts) THEN "Auto Deny"
        ELSE IF twoOrMoreElevated(risks, riskCounts) THEN "Auto Deny"
        ELSE IF elevatedAffordabilityThreeModerate(risks, riskCounts) THEN "Auto Deny"
        ELSE IF allLowRisk(risks, riskCounts) THEN "Auto Approve"
        ELSE IF twoPlusLowRestModerate(risks, riskCounts) THEN "Auto Approve"
        ELSE IF singleElevated(risks, riskCounts) THEN "Elevated Risk"
        ELSE "Manual Review"

calculateCombinedScore(c) ==
    DivBy(Add(Add(Add(c.transaction_history, c.affordability), c.employment),
              c.behavior), 4)

-----------------------------------------------------------------------------
(* Data generation                                                         *)

MathFloor(a) == a.n \div a.d

Clamp(lo, hi, x) == IF x < lo THEN lo ELSE IF x > hi THEN hi ELSE x

\* String.prototype.padStart with a one-character pad string
RECURSIVE padStart(_, _, _)
padStart(str, targetLength, padString) ==
    IF Len(str) >= targetLength THEN str
    ELSE padStart(padString \o str, targetLength, padString)

\* rand < p / 100
Below(rand, p) == rand.n * 100 < p * rand.d

getRandomProfile(rand) ==
    IF Below(rand, 30) THEN "excellent"
    ELSE IF Below(rand, 70) THEN "good"
    ELSE IF Below(rand, 90) THEN "fair"
    ELSE "poor"

baseRanges ==
    [excellent |-> [min |-> 70, max |-> 100],
     good      |-> [min |-> 50, max |-> 85],
     fair      |-> [min |-> 30, max |-> 65],
     poor      |-> [min |-> 10, max |-> 45]]

variation ==
    [transaction |-> 0, affordability |-> 0 - 5, employment |-> 5, behavior |-> 0]

\* the score is returned as it stands after the noise, without the last clamp
generateScore_NoFinalClamp(profile, criterion, rand1, rand2) ==
    LET range == baseRanges[profile]
        base == MathFloor(Add(Times(rand1, range.max - range.min + 1), Num(range.min)))
        varied == Clamp(0, 100, base + variation[criterion])
    IN  Num(varied + (MathFloor(Times(rand2, 11)) - 5))

\* offset and noise are both added before one clamp
generateScore_SingleClamp(profile, criterion, rand1, rand2) ==
    LET range == baseRanges[profile]
        base == MathFloor(Add(Times(rand1, range.max - range.min + 1), Num(range.min)))
    IN  Num(Clamp(0, 100, base + variation[criterion] + (MathFloor(Times(rand2, 11)) - 5)))

\* rand1 and rand2 are the two values Math.random() returns, in call order
generateScore(profile, criterion, rand1, rand2) ==
    LET range == baseRanges[profile]
        base == MathFloor(Add(Times(rand1, range.max - range.min + 1), Num(range.min)))
        varied == Clamp(0, 100, base + variation[criterion])
        noisy == varied + (MathFloor(Times(rand2, 11)) - 5)
    IN  Num(Clamp(0, 100, noisy))

\* draws[i] holds the values Math.random() returns in iteration i
generateSampleData(count, draws) ==
    [i \in 1..count |->
        LET customerId == "CUST-" \o padStart(ToString(i), 4, "0")
            profile == getRandomProfile(draws[i].profile)
        IN  [customer_id         |-> customerId,
             transaction_history |->
                 generateScore(profile, "transaction", draws[i].base, draws[i].noise),
             affordability       |->
                 generateScore(profile, "affordability", draws[i].base, draws[i].noise),
             employment          |->
                 generateScore(profile, "employment", draws[i].base, draws[i].noise),
             behavior            |->
                 generateScore(profile, "behavior", draws[i].base, draws[i].noise)]]

-----------------------------------------------------------------------------
(* Data processing                                                         *)

processData(rawData) ==
    [i \in 1..Len(rawData) |->
        LET c == rawData[i]
            combinedScore == calculateCombinedScore(c)
            riskLevel == getRiskLevel(combinedScore)
            decision == determineDecision(c)
        IN  [customer_id         |-> c.customer_id,
             transaction_history |-> c.transaction_history,
             affordability       |-> c.affordability,
             employment          |-> c.employment,
             behavior            |-> c.behavior,
             combined_score      |-> DivBy(Num(MathRound(Times(combinedScore, 10))), 10),
             risk_level          |-> riskLevel,
             decision            |-> decision]]

\* the callback writes the calculated fields into the customer object itself
rawDataAfterProcessData_InPlace(rawData) == processData(rawData)

\* the caller's array after processData: the callback builds a new object
\* for each record (lines 350-355) and assigns to no field of its argument
rawDataAfterProcessData(rawData) == rawData

-----------------------------------------------------------------------------
(* Portfolio analysis                                                      *)

\* the progress bars are set whatever the total is
updateSummaryCards_NoGuard(data, bars) ==
    LET total == Len(data)
        counts ==
            [approve  |-> filterLength(data, LAMBDA d : d.decision = "Auto Approve"),
             review   |-> filterLength(data, LAMBDA d : d.decision = "Manual Review"),
             elevated |-> filterLength(data, LAMBDA d : d.decision = "Elevated Risk"),
             deny     |-> filterLength(data, LAMBDA d : d.decision = "Auto Deny")]
    IN  [counters |-> [autoApprove |-> counts.approve, manualReview |-> counts.review,
                       elevatedRisk |-> counts.elevated, autoDeny |-> counts.deny,
                       totalCustomers |-> total],
         bars |-> [k \in DOMAIN counts |-> Times(DivBy(Num(counts[k]), total), 100)]]

\* the targets of the counters and the widths of the progress bars, in percent
updateSummaryCards(data, bars) ==
    LET total == Len(data)
        counts ==
            [approve  |-> filterLength(data, LAMBDA d : d.decision = "Auto Approve"),
             review   |-> filterLength(data, LAMBDA d : d.decision = "Manual Review"),
             elevated |-> filterLength(data, LAMBDA d : d.decision = "Elevated Risk"),
             deny     |-> filterLength(data, LAMBDA d : d.decision = "Auto Deny")]
    IN  [counters |-> [autoApprove |-> counts.approve, manualReview |-> counts.review,
                       elevatedRisk |-> counts.elevated, autoDeny |-> counts.deny,
                       totalCustomers |-> total],
         bars |-> IF total > 0
                  THEN [k \in DOMAIN counts |-> Times(DivBy(Num(counts[k]), total), 100)]
                  ELSE bars]

analyzeCriteria(data) ==
    LET criteria == <<"transaction_history", "affordability", "employment", "behavior">>
        names == <<"Transaction History", "Affordability", "Employment", "Behavior">>
    IN  [index \in 1..4 |->
            LET scores == [i \in 1..Len(data) |-> data[i][criteria[index]]]
                avgScore == DivBy(reduce(Add, scores, 1, Num(0)), Len(scores))
            IN  [key |-> criteria[index], name |-> names[index], avgScore |-> avgScore]]

\* on equal means the earlier criterion is kept
weakestCriterion_KeepFirst(criteriaStats) ==
    reduce(LAMBDA a, b : IF LessThan(b.avgScore, a.avgScore) THEN b ELSE a,
           criteriaStats, 2, criteriaStats[1])

\* line 502: reduce without an initial value starts from the first element
weakestCriterion(criteriaStats) ==
    reduce(LAMBDA a, b : IF LessThan(a.avgScore, b.avgScore) THEN a ELSE b,
           criteriaStats, 2, criteriaStats[1])

\* the denial alert does not depend on the approval rate
portfolioHealthInsight_Independent(approvalRate, denyRate) ==
    (IF Geq(approvalRate, 50)
     THEN <<[type |-> "positive", title |-> "Strong Portfolio Health"]>> ELSE <<>>)
    \o (IF Geq(denyRate, 30)
        THEN <<[type |-> "negative", title |-> "High Denial Rate Alert"]>> ELSE <<>>)

\* lines 473-488
portfolioHealthInsight(approvalRate, denyRate) ==
    IF Geq(approvalRate, 50)
    THEN <<[type |-> "positive", title |-> "Strong Portfolio Health"]>>
    ELSE IF Geq(denyRate, 30)
    THEN <<[type |-> "negative", title |-> "High Denial Rate Alert"]>>
    ELSE <<>>

\* lines 490-498
reviewWorkloadInsight(reviewRate) ==
    IF Geq(reviewRate, 30)
    THEN <<[type |-> "warning", title |-> "High Manual Review Volume"]>>
    ELSE <<>>

\* lines 500-511
criterionInsight(data) ==
    LET criteriaStats == analyzeCriteria(data)
        weakest == weakestCriterion(criteriaStats)
    IN  IF LessThan(weakest.avgScore, Num(60))
        THEN <<[type |-> "warning", title |-> "Weak " \o weakest.name \o " Scores"]>>
        ELSE <<>>

\* lines 513-522: highRiskTransactions / total > 0.15
transactionInsight(data) ==
    LET total == Len(data)
        highRiskTransactions ==
            filterLength(data, LAMBDA d : getCriteriaRisk(d.transaction_history) = "high")
    IN  IF highRiskTransactions * 100 > 15 * total
        THEN <<[type |-> "negative", title |-> "Transaction History Red Flag"]>>
        ELSE <<>>

\* lines 524-533: behaviorIssues / total > 0.2
behaviorInsight(data) ==
    LET total == Len(data)
        behaviorIssues ==
            filterLength(data, LAMBDA d : \/ getCriteriaRisk(d.behavior) = "high"
                                         \/ getCriteriaRisk(d.behavior) = "elevated")
    IN  IF behaviorIssues * 10 > 2 * total
        THEN <<[type |-> "negative", title |-> "Behavioral Risk Concentration"]>>
        ELSE <<>>

\* lines 535-543
defaultInsight(insights) ==
    IF Len(insights) = 0
    THEN <<[type |-> "positive", title |-> "Balanced Risk Profile"]>>
    ELSE insights

\* the items put into the insights container
updateInsights(data) ==
    IF Len(data) = 0
    THEN <<[type |-> "placeholder", title |-> "Upload data to generate insights..."]>>
    ELSE
        LET total == Len(data)
            approvalRate ==
                toFixed1(Times(DivBy(Num(
                    filterLength(data, LAMBDA d : d.decision = "Auto Approve")), total), 100))
            denyRate ==
                toFixed1(Times(DivBy(Num(
                    filterLength(data, LAMBDA d : d.decision = "Auto Deny")), total), 100))
            reviewRate ==
                toFixed1(Times(DivBy(Num(
                    filterLength(data, LAMBDA d : \/ d.decision = "Manual Review"
                                                 \/ d.decision = "Elevated Risk")),
                    total), 100))
        IN  defaultInsight(
                portfolioHealthInsight(approvalRate, denyRate)
                \o reviewWorkloadInsight(reviewRate)
                \o criterionInsight(data)
                \o transactionInsight(data)
                \o behaviorInsight(data))

-----------------------------------------------------------------------------
(* Inputs                                                                  *)

Criteria == {"transaction_history", "affordability", "employment", "behavior"}

\* the tier thresholds, with the grid points just below each of them
NearThresholds ==
    {RISK_THRESHOLDS[t] * Resolution - k :
        t \in {"low", "moderate", "elevated", "high"}, k \in 0..Delta}

\* the top of the documented range and one whole point outside it on each side
RangeEnds == {(0 - 1) * Resolution, 100 * Resolution, 101 * Resolution}

\* whole-point scores inside the bands
InsideBands == {k * Resolution : k \in {40, 45, 55, 60, 90}}

Scores ==
    {[n |-> h, d |-> Resolution] : h \in NearThresholds \cup RangeEnds \cup InsideBands}

Customers ==
    {[customer_id         |-> "CUST-0001",
      transaction_history |-> t,
      affordability       |-> a,
      employment          |-> e,
      behavior            |-> b] : t \in Scores, a \in Scores, e \in Scores, b \in Scores}

-----------------------------------------------------------------------------
(* The engine applied to one customer record                               *)

Init ==
    /\ customer \in Customers
    /\ pc = "ready"
    /\ ret = <<>>
    /\ InitPage
    /\ args = <<>>

CallGetCriteriaRisk ==
    /\ pc = "ready"
    /\ pc' = "getCriteriaRisk"
    /\ ret' = [f \in Criteria |-> getCriteriaRisk(customer[f])]
    /\ UNCHANGED <<customer, args, page>>

CallGetRiskLevel ==
    /\ pc = "ready"
    /\ pc' = "getRiskLevel"
    /\ ret' = [f \in Criteria |-> getRiskLevel(customer[f])]
    /\ UNCHANGED <<customer, args, page>>

CallDetermineDecision ==
    /\ pc = "ready"
    /\ pc' = "determineDecision"
    /\ ret' = determineDecision(customer)
    /\ UNCHANGED <<customer, args, page>>

CallProcessData ==
    /\ pc = "ready"
    /\ pc' = "processData"
    /\ ret' = processData(<<customer>>)
    /\ UNCHANGED <<customer, args, page>>

Next ==
    \/ CallGetCriteriaRisk
    \/ CallGetRiskLevel
    \/ CallDetermineDecision
    \/ CallProcessData

Spec == Init /\ [][Next]_vars

-----------------------------------------------------------------------------
(* The sample data generator                                               *)

Profiles == {"excellent", "good", "fair", "poor"}

CriterionNames == {"transaction", "affordability", "employment", "behavior"}

\* every sampled value of Math.random()
RandomValues == {[n |-> k, d |-> RandomGrid] : k \in 0..(RandomGrid - 1)}

\* the lowest and the highest sampled value of Math.random()
ExtremeRandomValues == {[n |-> k, d |-> RandomGrid] : k \in {0, RandomGrid - 1}}

\* one sampled value of Math.random() for each profile
ProfileRandomValues ==
    {[n |-> k, d |-> 20] : k \in {0, 5, 6, 13, 14, 17, 18, 19}}

\* the draws of one loop iteration; its four scores share their two draws
IterationDraws ==
    [profile : ProfileRandomValues, base : ExtremeRandomValues, noise : ExtremeRandomValues]

DrawSequences(count) == [1..count -> IterationDraws]

GenerateScoreArgs ==
    [fn : {"generateScore"}, profile : Profiles, criterion : CriterionNames,
     rand1 : RandomValues, rand2 : RandomValues]

GenerateSampleDataArgs ==
    UNION {[fn : {"generateSampleData"}, count : {count}, draws : DrawSequences(count)] :
              count \in 0..MaxCount}

InitSample ==
    /\ args \in GenerateScoreArgs \cup GenerateSampleDataArgs
    /\ pc = "ready"
    /\ ret = <<>>
    /\ InitPage
    /\ customer = <<>>

CallGenerateScore ==
    /\ pc = "ready"
    /\ args.fn = "generateScore"
    /\ pc' = "generateScore"
    /\ ret' = generateScore(args.profile, args.criterion, args.rand1, args.rand2)
    /\ UNCHANGED <<customer, args, page>>

CallGenerateSampleData ==
    /\ pc = "ready"
    /\ args.fn = "generateSampleData"
    /\ pc' = "generateSampleData"
    /\ ret' = generateSampleData(args.count, args.draws)
    /\ UNCHANGED <<customer, args, page>>

NextSample ==
    \/ CallGenerateScore
    \/ CallGenerateSampleData

SpecSample == InitSample /\ [][NextSample]_vars

-----------------------------------------------------------------------------
(* The engine and the portfolio analysis applied to one batch              *)

\* a raw record with whole-point scores
rawRecord(t, a, e, b) ==
    [customer_id         |-> "",
     transaction_history |-> [n |-> t * Resolution, d |-> Resolution],
     affordability       |-> [n |-> a * Resolution, d |-> Resolution],
     employment          |-> [n |-> e * Resolution, d |-> Resolution],
     behavior            |-> [n |-> b * Resolution, d |-> Resolution]]

\* the sampled kinds of record: approved; denied for two Elevated criteria;
\* denied with all scores 0; all Moderate; Elevated in behavior alone
RecordKinds ==
    <<rawRecord(90, 90, 90, 90), rawRecord(90, 45, 45, 90), rawRecord(0, 0, 0, 0),
      rawRecord(60, 60, 60, 60), rawRecord(90, 90, 90, 40)>>

\* counts[k] records of kind k, kind after kind, with sequential identifiers
batchOf(counts) ==
    LET ends == [k \in 0..5 |-> reduce(LAMBDA x, y : x + y, SubSeq(counts, 1, k), 1, 0)]
    IN  [i \in 1..ends[5] |->
            LET kind == CHOOSE k \in 1..5 : ends[k - 1] < i /\ i <= ends[k]
            IN  [RecordKinds[kind] EXCEPT
                    !.customer_id = "CUST-" \o padStart(ToString(i), 4, "0")]]

SmallBatches == {batchOf(counts) : counts \in [1..5 -> 0..SmallMax]}

\* batches in which the share of approved records, or of denied records, lies
\* just below its threshold
LargeBatches ==
    {batchOf(<<a, d, 0, (10 * LargeScale + 1) - a - d, 0>>) :
        a \in {0, 5 * LargeScale}, d \in {0, 3 * LargeScale}}

\* the widths of the four progress bars before the call: as reset on load
\* (lines 1447-1449), or as left by an earlier batch
BarStates ==
    {[approve |-> Num(0), review |-> Num(0), elevated |-> Num(0), deny |-> Num(0)],
     [approve |-> Num(100), review |-> Num(0), elevated |-> Num(0), deny |-> Num(0)]}

BatchArgs ==
    [fn : {"batch"}, rawData : SmallBatches \cup LargeBatches, bars : BarStates]

InitBatch ==
    /\ args \in BatchArgs
    /\ pc = "ready"
    /\ ret = <<>>
    /\ InitPage
    /\ customer = <<>>

\* processData(b), then processData applied to its own result
CallProcessDataTwice ==
    /\ pc = "ready"
    /\ args.fn = "batch"
    /\ pc' = "processData twice"
    /\ ret' = [rawData     |-> rawDataAfterProcessData(args.rawData),
               processed   |-> processData(args.rawData),
               reprocessed |-> processData(processData(args.rawData))]
    /\ UNCHANGED <<customer, args, page>>

CallAnalyzeCriteria ==
    /\ pc = "ready"
    /\ args.fn = "batch"
    /\ pc' = "analyzeCriteria"
    /\ ret' = analyzeCriteria(processData(args.rawData))
    /\ UNCHANGED <<customer, args, page>>

\* lines 501-502, for a batch that is not empty
CallWeakestCriterion ==
    /\ pc = "ready"
    /\ args.fn = "batch"
    /\ Len(args.rawData) > 0
    /\ pc' = "weakestCriterion"
    /\ ret' = weakestCriterion(analyzeCriteria(processData(args.rawData)))
    /\ UNCHANGED <<customer, args, page>>

CallUpdateInsights ==
    /\ pc = "ready"
    /\ args.fn = "batch"
    /\ pc' = "updateInsights"
    /\ ret' = updateInsights(processData(args.rawData))
    /\ UNCHANGED <<customer, args, page>>

CallUpdateSummaryCards ==
    /\ pc = "ready"
    /\ args.fn = "batch"
    /\ pc' = "updateSummaryCards"
    /\ ret' = updateSummaryCards(processData(args.rawData), args.bars)
    /\ UNCHANGED <<customer, args, page>>

NextBatch ==
    \/ CallProcessDataTwice
    \/ CallAnalyzeCriteria
    \/ CallWeakestCriterion
    \/ CallUpdateInsights
    \/ CallUpdateSummaryCards

SpecBatch == InitBatch /\ [][NextBatch]_vars

-----------------------------------------------------------------------------
(* Vocabulary of the properties                                            *)

Tiers == {"High", "Elevated", "Moderate", "Low"}

Decisions == {"Auto Approve", "Manual Review", "Elevated Risk", "Auto Deny"}

Less(a, b) == a.n * b.d < b.n * a.d

Same(a, b) == a.n * b.d = b.n * a.d

\* the tier table of the specification, band by band
InTier(s, t) ==
    CASE t = "Low"      -> 70 * s.d <= s.n
      [] t = "Moderate" -> 50 * s.d <= s.n /\ s.n < 70 * s.d
      [] t = "Elevated" -> 35 * s.d <= s.n /\ s.n < 50 * s.d
      [] t = "High"     -> s.n < 35 * s.d

TierCount(t) == Cardinality({f \in Criteria : InTier(customer[f], t)})

OthersAllModerate(f) == \A g \in Criteria \ {f} : InTier(customer[g], "Moderate")

ShortLabel(t) ==
    CASE t = "Low" -> "low" [] t = "Moderate" -> "moderate"
      [] t = "Elevated" -> "elevated" [] t = "High" -> "high"

LongLabel(t) ==
    CASE t = "Low" -> "Low Risk" [] t = "Moderate" -> "Moderate Risk"
      [] t = "Elevated" -> "Elevated Risk" [] t = "High" -> "High Risk"

\* High < Elevated < Moderate < Low
TierRank(label) ==
    CASE label \in {"high", "High Risk"}         -> 0
      [] label \in {"elevated", "Elevated Risk"} -> 1
      [] label \in {"moderate", "Moderate Risk"} -> 2
      [] label \in {"low", "Low Risk"}           -> 3

Whole(k) == [n |-> k * Resolution, d |-> Resolution]

Record(t, a, e, b) ==
    [customer_id         |-> "CUST-0001",
     transaction_history |-> Whole(t),
     affordability       |-> Whole(a),
     employment          |-> Whole(e),
     behavior            |-> Whole(b)]

Decided == pc = "determineDecision"

-----------------------------------------------------------------------------
(* C1: determineDecision returns 'Auto Deny' exactly when some criterion   *)
(* is High, or at least two are Elevated, or affordability is Elevated     *)
(* while the other three are all Moderate.                                 *)
C1_AutoDenyIff ==
    Decided =>
        (ret = "Auto Deny" <=>
            \/ TierCount("High") >= 1
            \/ TierCount("Elevated") >= 2
            \/ InTier(customer.affordability, "Elevated")
               /\ OthersAllModerate("affordability"))

\* affordability Elevated with three Moderate has been decided
C1_Witness ==
    /\ Decided
    /\ customer = Record(60, 40, 60, 60)
    /\ ret = "Auto Deny"

(* C2: determineDecision returns 'Auto Approve' exactly when no criterion  *)
(* is High or Elevated and at least two criteria are Low.                  *)
C2_AutoApproveIff ==
    Decided =>
        (ret = "Auto Approve" <=>
            /\ TierCount("High") = 0
            /\ TierCount("Elevated") = 0
            /\ TierCount("Low") >= 2)

\* two Low and two Moderate criteria have been decided
C2_Witness ==
    /\ Decided
    /\ customer = Record(90, 90, 55, 55)
    /\ ret = "Auto Approve"

C4_ReadmeManualReview ==
    \A f \in Criteria \ {"affordability"} :
        (Decided /\ InTier(customer[f], "Elevated") /\ OthersAllModerate(f)) =>
            ret = "Manual Review"

C6_DecisionTotal == Decided => ret \in Decisions

\* a record with two Elevated criteria and no High one has been decided
C6_Witness ==
    /\ Decided
    /\ TierCount("Elevated") = 2
    /\ TierCount("High") = 0
    /\ ret \in Decisions

C8_TierMonotonic ==
    pc \in {"getCriteriaRisk", "getRiskLevel"} =>
        \A f, g \in Criteria :
            ~Less(customer[g], customer[f]) => TierRank(ret[f]) <= TierRank(ret[g])

\* two scores in different tiers have been classified
C8_Witness ==
    /\ pc = "getCriteriaRisk"
    /\ \E f, g \in Criteria :
        /\ Less(customer[f], customer[g])
        /\ TierRank(ret[f]) < TierRank(ret[g])

(* C9: the stored risk_level of a processed record is the tier obtained by *)
(* classifying its stored combined_score.                                  *)
C9_RiskLevelOfStoredScore ==
    pc = "processData" => ret[1].risk_level = getRiskLevel(ret[1].combined_score)

\* 40 times the mean of the four scores, as a numerator over Resolution
MeanTimes40 ==
    10 * (customer.transaction_history.n + customer.affordability.n
          + customer.employment.n + customer.behavior.n)

\* the stored combined score in tenths
StoredTenths == ret[1].combined_score.n

(* C10: combined_score is the mean of the four scores rounded to one       *)
(* decimal with ties at the tenths digit rounded away from zero.           *)
C10_HalfAwayFromZero ==
    pc = "processData" =>
        /\ ret[1].combined_score.d = 10
        /\ IF MeanTimes40 >= 0
           THEN /\ (2 * StoredTenths - 1) * 2 * Resolution <= MeanTimes40
                /\ MeanTimes40 < (2 * StoredTenths + 1) * 2 * Resolution
           ELSE /\ (2 * StoredTenths - 1) * 2 * Resolution < MeanTimes40
                /\ MeanTimes40 <= (2 * StoredTenths + 1) * 2 * Resolution

(* C10 as amended: combined_score is the mean of the four scores rounded   *)
(* to one decimal with ties at the tenths digit rounded toward positive    *)
(* infinity, for negative means too.                                       *)
C10_HalfUp ==
    pc = "processData" =>
        /\ ret[1].combined_score.d = 10
        /\ (2 * StoredTenths - 1) * 2 * Resolution <= MeanTimes40
        /\ MeanTimes40 < (2 * StoredTenths + 1) * 2 * Resolution

\* a record whose mean is the negative tie -0.25 has been processed
C10_Witness ==
    /\ pc = "processData"
    /\ customer = Record(0 - 1, 0, 0, 0)
    /\ MeanTimes40 = (0 - 5) * 2 * Resolution
    /\ StoredTenths = 0 - 2

-----------------------------------------------------------------------------
(* Vocabulary of the generator properties                                  *)

IsIntegerIn(x, lo, hi) == x.d = 1 /\ lo <= x.n /\ x.n <= hi

\* the identifier documented for record i: CUST- and i on four digits
ExpectedId(i) ==
    IF i < 10 THEN "CUST-000" \o ToString(i)
    ELSE IF i < 100 THEN "CUST-00" \o ToString(i)
    ELSE IF i < 1000 THEN "CUST-0" \o ToString(i)
    ELSE "CUST-" \o ToString(i)

\* the base draw b and the noise draw n that the two random values stand for
BaseDraw ==
    baseRanges[args.profile].min
    + (args.rand1.n * (baseRanges[args.profile].max - baseRanges[args.profile].min + 1))
          \div args.rand1.d

NoiseDraw == ((args.rand2.n * 11) \div args.rand2.d) - 5

Offset ==
    CASE args.criterion = "affordability" -> 0 - 5
      [] args.criterion = "employment" -> 5
      [] OTHER -> 0

Max(a, b) == IF a >= b THEN a ELSE b

Min(a, b) == IF a <= b THEN a ELSE b

C14_SingleFinalClamp ==
    pc = "generateScore" =>
        ret = Num(Max(0, Min(100, BaseDraw + Offset + NoiseDraw)))

(* C14 as amended: generateScore returns                                   *)
(* clamp(clamp(b + offset, 0, 100) + n, 0, 100): the offset is clamped     *)
(* before the noise is added, and the sum is clamped again.                *)
C14_ClampTwice ==
    pc = "generateScore" =>
        ret = Num(Max(0, Min(100, Max(0, Min(100, BaseDraw + Offset)) + NoiseDraw)))

\* employment, excellent, b = 100, n = -5 has been generated: 95, not 100
C14_Witness ==
    /\ pc = "generateScore"
    /\ args.profile = "excellent"
    /\ args.criterion = "employment"
    /\ BaseDraw = 100
    /\ NoiseDraw = 0 - 5
    /\ ret = Num(95)

-----------------------------------------------------------------------------
(* Claims about batches                                                    *)

\* the number of records of a processed batch with the given decision
DecisionCount(data, decision) == filterLength(data, LAMBDA d : d.decision = decision)

\* the titles of a list of insights
Titles(insights) == {insights[i].title : i \in 1..Len(insights)}

(* C11: processing is idempotent and free of side effects: for every batch *)
(* b, processData applied to the records of processData(b) gives every     *)
(* record the same combined_score and the same decision as processData(b), *)
(* and the records of b are unchanged by the call.                         *)
C11_Idempotent ==
    pc = "processData twice" =>
        /\ ret.rawData = args.rawData
        /\ Len(ret.processed) = Len(args.rawData)
        /\ Len(ret.reprocessed) = Len(ret.processed)
        /\ \A i \in 1..Len(ret.processed) :
            /\ ret.reprocessed[i].combined_score = ret.processed[i].combined_score
            /\ ret.reprocessed[i].decision = ret.processed[i].decision
            /\ ret.reprocessed[i].customer_id = args.rawData[i].customer_id

\* a batch with an approved and a denied record has been processed twice
C11_Witness ==
    /\ pc = "processData twice"
    /\ Len(args.rawData) = 2
    /\ ret.processed[1].decision = "Auto Approve"
    /\ ret.reprocessed[2].decision = "Auto Deny"
    /\ ret.reprocessed[2].combined_score = [n |-> 675, d |-> 10]

(* C15: when two or more criteria share the lowest portfolio mean, the     *)
(* weakest criterion selected for the weak criterion insight is the first  *)
(* of them in the fixed order transaction, affordability, employment,      *)
(* behavior.                                                               *)
C15_FirstOfTied ==
    pc = "weakestCriterion" =>
        LET stats == analyzeCriteria(processData(args.rawData))
            lowest == {i \in 1..4 : \A j \in 1..4 :
                          ~LessThan(stats[j].avgScore, stats[i].avgScore)}
        IN  \A i \in lowest : (\A j \in lowest : i <= j) => ret.key = stats[i].key

(* C15 as amended: when two or more criteria share the lowest portfolio    *)
(* mean, the weakest criterion selected is the last of them in the fixed   *)
(* order transaction, affordability, employment, behavior.                 *)
C15_LastOfTied ==
    pc = "weakestCriterion" =>
        LET stats == analyzeCriteria(processData(args.rawData))
            lowest == {i \in 1..4 : \A j \in 1..4 :
                          ~LessThan(stats[j].avgScore, stats[i].avgScore)}
        IN  \A i \in lowest : (\A j \in lowest : i >= j) => ret.key = stats[i].key

\* affordability and employment share the lowest mean, 45: employment is chosen
C15_Witness ==
    /\ pc = "weakestCriterion"
    /\ Len(args.rawData) = 1
    /\ args.rawData[1].affordability = args.rawData[1].employment
    /\ LessThan(args.rawData[1].employment, args.rawData[1].behavior)
    /\ LessThan(args.rawData[1].affordability, args.rawData[1].transaction_history)
    /\ ret.key = "employment"

\* the approval, denial and review rates as updateInsights computes them
RateOf(data, decisions) ==
    toFixed1(Times(DivBy(Num(filterLength(data, LAMBDA d : d.decision \in decisions)),
                         Len(data)), 100))

\* the insights of the five rules, before the default is considered
RuleInsights(data) ==
    portfolioHealthInsight(RateOf(data, {"Auto Approve"}), RateOf(data, {"Auto Deny"}))
    \o reviewWorkloadInsight(RateOf(data, {"Manual Review", "Elevated Risk"}))
    \o criterionInsight(data)
    \o transactionInsight(data)
    \o behaviorInsight(data)

(* C16: for every non-empty processed batch the list of insights built by  *)
(* updateInsights is non-empty, never holds both Strong Portfolio Health   *)
(* and High Denial Rate Alert, and holds Balanced Risk Profile if and only *)
(* if none of the other insights was emitted, in which case it is the only *)
(* entry.                                                                  *)
C16_InsightList ==
    (pc = "updateInsights" /\ Len(args.rawData) > 0) =>
        /\ Len(ret) > 0
        /\ ~({"Strong Portfolio Health", "High Denial Rate Alert"} \subseteq Titles(ret))
        /\ "Balanced Risk Profile" \in Titles(ret)
            <=> Len(RuleInsights(processData(args.rawData))) = 0
        /\ "Balanced Risk Profile" \in Titles(ret) => Len(ret) = 1
        /\ "Balanced Risk Profile" \notin Titles(ret)
            => ret = RuleInsights(processData(args.rawData))

\* seven records, no rule fires: the list is the default insight alone
C16_Witness ==
    /\ pc = "updateInsights"
    /\ Len(args.rawData) = 7
    /\ Titles(ret) = {"Balanced Risk Profile"}
    /\ Len(ret) = 1

\* 100 * count / total in tenths of a percent, rounded to the nearest tenth,
\* the larger one of two equally near
RoundedTenths(count, total) == (2 * 1000 * count + total) \div (2 * total)

(* C17: for every non-empty processed batch of any size, Strong Portfolio  *)
(* Health is emitted if and only if the exact share of Auto Approve        *)
(* records is at least 50% (count * 2 >= total), and High Denial Rate      *)
(* Alert if and only if that share is below 50% and the exact share of     *)
(* Auto Deny records is at least 30%.                                      *)
C17_ExactShares ==
    (pc = "updateInsights" /\ Len(args.rawData) > 0) =>
        LET data == processData(args.rawData)
            total == Len(data)
            approved == DecisionCount(data, "Auto Approve")
            denied == DecisionCount(data, "Auto Deny")
        IN  /\ "Strong Portfolio Health" \in Titles(ret) <=> approved * 2 >= total
            /\ "High Denial Rate Alert" \in Titles(ret)
                <=> (approved * 2 < total /\ denied * 10 >= 3 * total)

(* C17 as amended: Strong Portfolio Health is emitted if and only if the   *)
(* percentage of Auto Approve records, rounded to one decimal, is at least *)
(* 50.0, and High Denial Rate Alert if and only if that rounded percentage *)
(* is below 50.0 and the percentage of Auto Deny records, rounded to one   *)
(* decimal, is at least 30.0.                                              *)
C17_RoundedShares ==
    (pc = "updateInsights" /\ Len(args.rawData) > 0) =>
        LET data == processData(args.rawData)
            total == Len(data)
            approved == RoundedTenths(DecisionCount(data, "Auto Approve"), total)
            denied == RoundedTenths(DecisionCount(data, "Auto Deny"), total)
        IN  /\ "Strong Portfolio Health" \in Titles(ret) <=> approved >= 500
            /\ "High Denial Rate Alert" \in Titles(ret)
                <=> (approved < 500 /\ denied >= 300)

\* fewer than half of the records are approved, and the approval insight is emitted
C17_Witness ==
    /\ pc = "updateInsights"
    /\ Len(args.rawData) > 0
    /\ DecisionCount(processData(args.rawData), "Auto Approve") * 2 < Len(args.rawData)
    /\ "Strong Portfolio Health" \in Titles(ret)

(* C18: on an empty batch no aggregate operation throws or gives an        *)
(* undefined result: analyzeCriteria of the empty batch returns four       *)
(* entries, each with the same sentinel mean NaN; updateInsights shows the *)
(* placeholder and computes no rate; updateSummaryCards computes no rate   *)
(* with a zero total and leaves the bars as they were.                     *)
C18_EmptyBatch ==
    Len(args.rawData) = 0 =>
        /\ pc = "analyzeCriteria" =>
            /\ Len(ret) = 4
            /\ \A i \in 1..4 : IsNaN(ret[i].avgScore)
            /\ <<ret[1].key, ret[2].key, ret[3].key, ret[4].key>>
                = <<"transaction_history", "affordability", "employment", "behavior">>
        /\ pc = "updateInsights" =>
            /\ Len(ret) = 1
            /\ ret[1].type = "placeholder"
        /\ pc = "updateSummaryCards" =>
            /\ ret.bars = args.bars
            /\ \A k \in DOMAIN ret.bars : ~IsNaN(ret.bars[k])
            /\ \A k \in DOMAIN ret.counters : ret.counters[k] = 0

\* the summary cards have been updated for an empty batch after a batch that
\* had filled the approval bar
C18_Witness ==
    /\ pc = "updateSummaryCards"
    /\ Len(args.rawData) = 0
    /\ args.bars.approve = Num(100)
    /\ ret.bars.approve = Num(100)
    /\ ret.counters.totalCustomers = 0

-----------------------------------------------------------------------------
(* CSV ingestion                                                           *)

charAt(s, i) == SubSeq(s, i, i)

\* the characters matched by \s that the sampled files contain
Whitespace == {" ", "\t"}

UpperCase == "ABCDEFGHIJKLMNOPQRSTUVWXYZ"

LowerCase == "abcdefghijklmnopqrstuvwxyz"

Digits == "0123456789"

\* the first position of the one-character string c in s, 0 when there is none
RECURSIVE indexFrom(_, _, _)
indexFrom(s, c, i) ==
    IF i > Len(s) THEN 0 ELSE IF charAt(s, i) = c THEN i ELSE indexFrom(s, c, i + 1)

indexOf(s, c) == indexFrom(s, c, 1)

RECURSIVE toLowerCase(_)
toLowerCase(s) ==
    IF Len(s) = 0 THEN ""
    ELSE LET c == charAt(s, 1)
             k == indexOf(UpperCase, c)
         IN  (IF k > 0 THEN charAt(LowerCase, k) ELSE c) \o toLowerCase(SubSeq(s, 2, Len(s)))

RECURSIVE trimStart(_)
trimStart(s) ==
    IF Len(s) > 0 /\ charAt(s, 1) \in Whitespace THEN trimStart(SubSeq(s, 2, Len(s))) ELSE s

RECURSIVE trimEnd(_)
trimEnd(s) ==
    IF Len(s) > 0 /\ charAt(s, Len(s)) \in Whitespace
    THEN trimEnd(SubSeq(s, 1, Len(s) - 1))
    ELSE s

trim(s) == trimEnd(trimStart(s))

\* String.prototype.includes
includes(s, sub) ==
    \E i \in 1..(Len(s) - Len(sub) + 1) : SubSeq(s, i, i + Len(sub) - 1) = sub

\* String.prototype.replace with a string pattern: the first occurrence only
replaceFirst(s, c, by) ==
    LET i == indexOf(s, c)
    IN  IF i = 0 THEN s ELSE SubSeq(s, 1, i - 1) \o by \o SubSeq(s, i + 1, Len(s))

\* replace(/\s+/g, '_'): every run of whitespace becomes one underscore
RECURSIVE replaceWhitespaceRuns(_)
replaceWhitespaceRuns(s) ==
    IF Len(s) = 0 THEN ""
    ELSE IF charAt(s, 1) \in Whitespace THEN "_" \o replaceWhitespaceRuns(trimStart(s))
    ELSE charAt(s, 1) \o replaceWhitespaceRuns(SubSeq(s, 2, Len(s)))

RECURSIVE join(_, _)
join(array, separator) ==
    IF Len(array) = 0 THEN ""
    ELSE IF Len(array) = 1 THEN array[1]
    ELSE array[1] \o separator \o join(Tail(array), separator)

\* Array.prototype.filter
RECURSIVE filterFrom(_, _, _)
filterFrom(keep(_), array, i) ==
    IF i > Len(array) THEN <<>>
    ELSE (IF keep(array[i]) THEN <<array[i]>> ELSE <<>>) \o filterFrom(keep, array, i + 1)

filter(array, keep(_)) == filterFrom(keep, array, 1)

\* the length of the longest prefix of s made of decimal digits
RECURSIVE digitsPrefix(_)
digitsPrefix(s) ==
    IF Len(s) > 0 /\ indexOf(Digits, charAt(s, 1)) > 0
    THEN 1 + digitsPrefix(SubSeq(s, 2, Len(s)))
    ELSE 0

\* the value of a string of decimal digits, and ten to the number of digits
RECURSIVE digitsValue(_)
digitsValue(s) ==
    IF Len(s) = 0 THEN 0
    ELSE 10 * digitsValue(SubSeq(s, 1, Len(s) - 1)) + (indexOf(Digits, charAt(s, Len(s))) - 1)

RECURSIVE powerOfTen(_)
powerOfTen(k) == IF k = 0 THEN 1 ELSE 10 * powerOfTen(k - 1)

NaN == [n |-> 0, d |-> 0]

\* parseFloat of a string: leading whitespace is skipped, then the longest
\* prefix  [+-] digits [. digits]  is the value and what follows is ignored;
\* NaN without a digit. The sampled values have no exponent.
parseFloat(string) ==
    LET s == trimStart(string)
        signed == Len(s) > 0 /\ charAt(s, 1) \in {"+", "-"}
        negative == Len(s) > 0 /\ charAt(s, 1) = "-"
        body == IF signed THEN SubSeq(s, 2, Len(s)) ELSE s
        whole == digitsPrefix(body)
        rest == SubSeq(body, whole + 1, Len(body))
        decimals == IF Len(rest) > 0 /\ charAt(rest, 1) = "."
                    THEN digitsPrefix(SubSeq(rest, 2, Len(rest))) ELSE 0
        value == digitsValue(SubSeq(body, 1, whole)) * powerOfTen(decimals)
                 + digitsValue(SubSeq(rest, 2, decimals + 1))
    IN  IF whole + decimals = 0 THEN NaN
        ELSE [n |-> IF negative THEN 0 - value ELSE value, d |-> powerOfTen(decimals)]

\* x || 0 for a number x: NaN and 0 are falsy
orZero(x) == IF IsNaN(x) \/ x.n = 0 THEN Num(0) ELSE x

requiredColumns ==
    <<"customer_id", "transaction_history", "affordability", "employment", "behavior">>

\* lines 1279-1284; results is the parsed file: the header fields and, for each
\* row, its values in the order of the fields
missingColumns(results) ==
    LET keys == IF Len(results.data) = 0 THEN <<>> ELSE results.fields
        columns == [i \in 1..Len(keys) |-> trim(toLowerCase(keys[i]))]
    IN  filter(requiredColumns,
               LAMBDA col : ~ \E i \in 1..Len(columns) :
                                includes(columns[i], replaceFirst(col, "_", "")))

normalizedKey(key) == replaceWhitespaceRuns(trim(toLowerCase(key)))

\* lines 1297-1301: the values of a row under their normalized keys; a later
\* field with the same normalized key overwrites an earlier one
normalize(fields, row) ==
    LET present == {i \in 1..Len(fields) : i <= Len(row)}
    IN  [k \in {normalizedKey(fields[i]) : i \in present} |->
            row[CHOOSE i \in present :
                    /\ normalizedKey(fields[i]) = k
                    /\ \A j \in present : normalizedKey(fields[j]) = k => j <= i]]

\* lines 1303-1309; a key that is absent reads as undefined, which parseFloat
\* turns into NaN and  || ''  into the empty string
convertRow(fields, row) ==
    LET normalized == normalize(fields, row)
        number(key) == orZero(IF key \in DOMAIN normalized
                              THEN parseFloat(normalized[key]) ELSE NaN)
    IN  [customer_id         |-> IF "customer_id" \in DOMAIN normalized
                                 THEN trim(normalized["customer_id"]) ELSE "",
         transaction_history |-> number("transaction_history"),
         affordability       |-> number("affordability"),
         employment          |-> number("employment"),
         behavior            |-> number("behavior")]

\* lines 1311-1321
validRow(row) ==
    /\ row.customer_id # ""
    /\ ~IsNaN(row.transaction_history)
    /\ ~IsNaN(row.affordability)
    /\ ~IsNaN(row.employment)
    /\ ~IsNaN(row.behavior)

\* the complete callback of Papa.parse: whether the file is loaded, the rows
\* that become rawData, and the status message
complete(results) ==
    LET missing == missingColumns(results)
        converted == [i \in 1..Len(results.data) |-> convertRow(results.fields, results.data[i])]
        data == filter(converted, validRow)
        invalidCount == Len(converted) - Len(data)
    IN  IF Len(missing) > 0
        THEN [loaded |-> FALSE, data |-> <<>>, invalidCount |-> 0, type |-> "error",
              message |-> "Missing columns: " \o join(missing, ", ")]
        ELSE IF Len(data) = 0
        THEN [loaded |-> FALSE, data |-> <<>>, invalidCount |-> invalidCount,
              type |-> "error", message |-> "No valid data found in file"]
        ELSE [loaded |-> TRUE, data |-> data, invalidCount |-> invalidCount,
              type |-> "success",
              message |-> "Successfully loaded " \o ToString(Len(data)) \o " customers"
                          \o (IF invalidCount > 0
                              THEN " (" \o ToString(invalidCount) \o " invalid rows skipped)"
                              ELSE "")]

\* header rows: as documented; capitalised words; padded capitals; compound
\* names; the documented names followed by compound ones; one column missing
Headers ==
    {requiredColumns,
     <<"Customer ID", "Transaction History", "Affordability", "Employment", "Behavior">>,
     <<" CUSTOMER_ID ", "TRANSACTION_HISTORY", "AFFORDABILITY", "EMPLOYMENT", "BEHAVIOR">>,
     <<"customerid", "transactionhistory", "affordability", "employment", "behavior">>,
     requiredColumns \o <<"customerid", "transactionhistory">>,
     <<"customer_id", "transaction_history", "affordability", "employment">>}

\* rows of five values: numeric scores; a non-numeric score; an empty score;
\* an empty identifier; a decimal and a zero score
RowKinds ==
    {<<"CUST-0001", "85", "72.5", "90", "65">>,
     <<"CUST-0002", "abc", "70", "80", "60">>,
     <<"CUST-0003", "80", "", "70", "60">>,
     <<"", "80", "70", "60", "50">>,
     <<" CUST-0005 ", "40.25", "0", "100", "55">>}

\* a row cut after its third value: its last fields are missing
ShortRows == {<<"CUST-0004", "80", "70">>}

\* the values of a row for a header: cut to the header, or filled with empty
\* values for the columns after the fifth
rowFor(fields, row) ==
    [i \in 1..(IF Len(row) < 5 THEN Len(row) ELSE Len(fields)) |->
        IF i <= Len(row) THEN row[i] ELSE ""]

RowLists ==
    {<<>>}
    \cup {<<r>> : r \in RowKinds \cup ShortRows}
    \cup {<<r1, r2>> : r1 \in RowKinds, r2 \in RowKinds \cup ShortRows}

ParsedFiles ==
    {[fields |-> fields, data |-> [i \in 1..Len(rows) |-> rowFor(fields, rows[i])]] :
        fields \in Headers, rows \in RowLists}

CompleteArgs == [fn : {"complete"}, results : ParsedFiles]

InitCSV ==
    /\ args \in CompleteArgs
    /\ pc = "ready"
    /\ ret = <<>>
    /\ InitPage
    /\ customer = <<>>

CallComplete ==
    /\ pc = "ready"
    /\ args.fn = "complete"
    /\ pc' = "complete"
    /\ ret' = complete(args.results)
    /\ UNCHANGED <<customer, args, page>>

NextCSV == CallComplete

SpecCSV == InitCSV /\ [][NextCSV]_vars

-----------------------------------------------------------------------------
(* Claims about CSV ingestion                                              *)

\* the row has all five values, an identifier and four numeric scores
WellFormedRow(row) ==
    /\ Len(row) = 5
    /\ trim(row[1]) # ""
    /\ \A k \in 2..5 : ~IsNaN(parseFloat(row[k]))

(* C12: a CSV file whose header row is exactly the documented columns      *)
(* customer_id, transaction_history, affordability, employment, behavior,  *)
(* with a non-empty ID and numeric scores in every row, passes column      *)
(* validation and is loaded: rawData becomes its rows and no Missing       *)
(* columns error is reported.                                              *)
C12_DocumentedHeaderLoads ==
    (/\ pc = "complete"
     /\ args.results.fields = requiredColumns
     /\ Len(args.results.data) > 0
     /\ \A i \in 1..Len(args.results.data) : WellFormedRow(args.results.data[i])) =>
        /\ ret.loaded
        /\ ret.type = "success"
        /\ ~includes(ret.message, "Missing columns")
        /\ Len(ret.data) = Len(args.results.data)
        /\ \A i \in 1..Len(ret.data) :
            ret.data[i].customer_id = trim(args.results.data[i][1])

\* a criterion of the row has a value that is not a number, or has no value
BadScore(row) ==
    \E k \in 2..5 : k > Len(row) \/ IsNaN(parseFloat(row[k]))

(* C19: during CSV ingestion a row whose value for any of the four         *)
(* criteria is non-numeric or missing is rejected: it is not included in   *)
(* rawData and it is counted in the number of invalid rows skipped, rather *)
(* than being scored.                                                      *)
C19_BadScoreRejected ==
    (/\ pc = "complete"
     /\ Len(missingColumns(args.results)) = 0
     /\ \A i \in 1..Len(args.results.fields) :
            i <= 5 => args.results.fields[i] = requiredColumns[i]) =>
        LET rows == args.results.data
            bad == {i \in 1..Len(rows) : BadScore(rows[i])}
        IN  /\ \A i \in bad : \A j \in 1..Len(ret.data) :
                    ret.data[j].customer_id # trim(rows[i][1])
            /\ ret.invalidCount >= Cardinality(bad)

-----------------------------------------------------------------------------
(* The page: the buttons, the upload and the status message                *)

\* the delay of the timeout that hides the status message, in milliseconds
StatusTimeout == 5000

\* the characters of the sampled strings in the order of their code units
CodeOrder == " -.0123456789ABCDEFGHIJKLMNOPQRSTUVWXYZ_abcdefghijklmnopqrstuvwxyz"

\* a < b for strings: the comparison of the first code units that differ, a
\* proper prefix being the smaller
RECURSIVE stringLess(_, _)
stringLess(a, b) ==
    IF Len(b) = 0 THEN FALSE
    ELSE IF Len(a) = 0 THEN TRUE
    ELSE IF charAt(a, 1) = charAt(b, 1)
         THEN stringLess(SubSeq(a, 2, Len(a)), SubSeq(b, 2, Len(b)))
         ELSE indexOf(CodeOrder, charAt(a, 1)) < indexOf(CodeOrder, charAt(b, 1))

\* the columns whose values are strings
StringColumns == {"customer_id", "risk_level", "decision"}

\* the comparator of lines 985-998, as the sign of its result
compare(a, b, column, direction) ==
    LET string == column \in StringColumns
        less == IF string THEN stringLess(toLowerCase(a[column]), toLowerCase(b[column]))
                ELSE LessThan(a[column], b[column])
        greater == IF string THEN stringLess(toLowerCase(b[column]), toLowerCase(a[column]))
                   ELSE LessThan(b[column], a[column])
    IN  IF less THEN (IF direction = "asc" THEN 0 - 1 ELSE 1)
        ELSE IF greater THEN (IF direction = "asc" THEN 1 ELSE 0 - 1)
        ELSE 0

\* lines 982-999: Array.prototype.sort is stable, so the records are ordered by
\* the comparator and, where it returns 0, by their position before the sort
sortData(filteredData, sortConfig) ==
    LET before(i, j) ==
            LET c == compare(filteredData[i], filteredData[j],
                             sortConfig.column, sortConfig.direction)
            IN  c < 0 \/ (c = 0 /\ i < j)
        rank == [i \in 1..Len(filteredData) |->
                    1 + Cardinality({j \in 1..Len(filteredData) : before(j, i)})]
    IN  [k \in 1..Len(filteredData) |->
            filteredData[CHOOSE i \in 1..Len(filteredData) : rank[i] = k]]

\* lines 958-977 with the search term and the risk filter read from the page
updateTable(state, searchTerm, riskFilter) ==
    LET filtered ==
            filter(state.processedData,
                   LAMBDA c : /\ includes(toLowerCase(c.customer_id), searchTerm)
                              /\ (riskFilter = "all" \/ c.risk_level = riskFilter))
    IN  [state EXCEPT !.filteredData =
            IF state.sortConfig.column # null
            THEN sortData(filtered, state.sortConfig)
            ELSE filtered]

\* updateUI as far as AppState goes: of the functions it calls, updateTable
\* alone writes to AppState (the chart objects are not modelled)
updateUI(state) == updateTable(state, toLowerCase(searchInput), filterRisk)

\* lines 1348-1358: the message is displayed and a timeout is started; the
\* timeouts started by earlier calls stay pending
showUploadStatus(message, type) ==
    /\ uploadStatus' = [textContent |-> message, className |-> "upload-status " \o type]
    /\ timers' = timers \cup {now + StatusTimeout}
    /\ shownAt' = now

\* the draws of Math.random() sampled for the button
SampleDraws ==
    {[i \in 1..SampleSize |-> draw] :
        draw \in [profile : ProfileRandomValues, base : {[n |-> 0, d |-> RandomGrid]},
                  noise : {[n |-> 0, d |-> RandomGrid]}]}

\* the batches the button can generate from them
SampleBatches == {generateSampleData(SampleSize, draws) : draws \in SampleDraws}

\* the files sampled for the upload: one row under each header
UploadedFiles == {file \in ParsedFiles : Len(file.data) = 1}

\* what the complete callback makes of each of them
UploadOutcomes == {complete(file) : file \in UploadedFiles}

\* the outcome of the error callback, lines 1339-1341
ParseError ==
    [loaded |-> FALSE, data |-> <<>>, invalidCount |-> 0, type |-> "error",
     message |-> "Error parsing file: "]

\* the data are stored before the file is found to hold no valid row
completeAppState_AssignFirst(state, outcome) ==
    updateUI([state EXCEPT !.rawData = outcome.data,
                           !.processedData = processData(outcome.data)])

\* lines 1287-1330: AppState after the complete callback
completeAppState(state, outcome) ==
    IF outcome.loaded
    THEN updateUI([state EXCEPT !.rawData = outcome.data,
                                !.processedData = processData(outcome.data)])
    ELSE state

\* processedData is left as it was
clearDataAppState_KeepProcessed(state) ==
    updateUI([state EXCEPT !.rawData = <<>>, !.filteredData = <<>>])

\* lines 1163-1166: AppState after the Clear Data button
clearDataAppState(state) ==
    updateUI([state EXCEPT !.rawData = <<>>,
                           !.processedData = <<>>,
                           !.filteredData = <<>>])

\* lines 1154-1159; pc records the handler that ran
LoadSampleData ==
    /\ \E rawData \in SampleBatches :
        AppState' = updateUI([AppState EXCEPT !.rawData = rawData,
                                             !.processedData = processData(rawData)])
    /\ showUploadStatus("Successfully loaded 100 sample customers", "success")
    /\ pc' = "loadSampleData"
    /\ ret' = <<>>
    /\ UNCHANGED <<now, inputs, customer, args>>

\* lines 1162-1169
ClearData ==
    /\ AppState' = clearDataAppState(AppState)
    /\ showUploadStatus("Data cleared", "success")
    /\ pc' = "clearData"
    /\ ret' = <<>>
    /\ UNCHANGED <<now, inputs, customer, args>>

\* the complete callback of processCSVFile, lines 1278-1338; ret records
\* what the callback made of the file
UploadComplete ==
    /\ \E outcome \in UploadOutcomes :
        /\ AppState' = completeAppState(AppState, outcome)
        /\ showUploadStatus(outcome.message, outcome.type)
        /\ ret' = outcome
    /\ pc' = "processCSVFile"
    /\ UNCHANGED <<now, inputs, customer, args>>

\* the error callback of processCSVFile, lines 1339-1341
UploadError ==
    /\ showUploadStatus(ParseError.message, ParseError.type)
    /\ pc' = "processCSVFile"
    /\ ret' = ParseError
    /\ UNCHANGED <<AppState, now, inputs, customer, args>>

\* the callback of a timeout that is due, lines 1354-1357
StatusTimeoutFires ==
    /\ \E due \in timers :
        /\ due <= now
        /\ timers' = timers \ {due}
    /\ uploadStatus' = [textContent |-> "", className |-> "upload-status"]
    /\ UNCHANGED <<AppState, now, shownAt, inputs, engine>>

\* time passes while no timeout is due
Tick ==
    /\ now + TimeStep <= MaxTime
    /\ \A due \in timers : due > now
    /\ now' = now + TimeStep
    /\ UNCHANGED <<AppState, uploadStatus, timers, shownAt, inputs, engine>>

InitApp ==
    /\ InitPage
    /\ customer = <<>>
    /\ pc = "ready"
    /\ ret = <<>>
    /\ args = <<>>

NextApp ==
    \/ LoadSampleData
    \/ ClearData
    \/ UploadComplete
    \/ UploadError
    \/ StatusTimeoutFires
    \/ Tick

SpecApp == InitApp /\ [][NextApp]_vars

-----------------------------------------------------------------------------
(* The table: search, risk filter, sorting and pages                       *)

\* Math.ceil(total / itemsPerPage)
totalPages(state) ==
    (Len(state.filteredData) + state.pagination.itemsPerPage - 1)
        \div state.pagination.itemsPerPage

\* lines 1006-1010: the records renderTable puts into the table body; when
\* there is none it shows 'No records match your filters'
pageData(state) ==
    LET start == (state.pagination.currentPage - 1) * state.pagination.itemsPerPage
        end == start + state.pagination.itemsPerPage
        last == IF end < Len(state.filteredData) THEN end ELSE Len(state.filteredData)
    IN  SubSeq(state.filteredData, start + 1, last)

\* lines 1084-1117: the values of data-page of the buttons that are not disabled
pageButtons(state) ==
    LET currentPage == state.pagination.currentPage
    IN  IF totalPages(state) <= 1 THEN {}
        ELSE (IF currentPage = 1 THEN {} ELSE {currentPage - 1})
             \cup {i \in 1..totalPages(state) :
                      \/ i = 1
                      \/ i = totalPages(state)
                      \/ (i >= currentPage - 1 /\ i <= currentPage + 1)}
             \cup (IF currentPage = totalPages(state) THEN {} ELSE {currentPage + 1})

\* the values sampled for the search field
SearchTerms == {"", "CUST-0001"}

\* the options of the risk filter that are sampled
RiskFilters == {"all", "High Risk"}

\* the columns with a sortable header that are sampled
SortColumns == {"customer_id", "combined_score"}

\* lines 1172-1175
SearchInput ==
    /\ \E term \in SearchTerms :
        /\ searchInput' = term
        /\ AppState' = updateTable([AppState EXCEPT !.pagination.currentPage = 1],
                                   toLowerCase(term), filterRisk)
    /\ pc' = "searchInput"
    /\ ret' = <<>>
    /\ UNCHANGED <<filterRisk, uploadStatus, timers, now, shownAt, customer, args>>

\* lines 1178-1181
FilterRiskChange ==
    /\ \E option \in RiskFilters :
        /\ filterRisk' = option
        /\ AppState' = updateTable([AppState EXCEPT !.pagination.currentPage = 1],
                                   toLowerCase(searchInput), option)
    /\ pc' = "filterRisk"
    /\ ret' = <<>>
    /\ UNCHANGED <<searchInput, uploadStatus, timers, now, shownAt, customer, args>>

\* lines 1190-1210: a click on a sortable header
SortClick ==
    /\ \E column \in SortColumns :
        LET sortConfig ==
                IF AppState.sortConfig.column = column
                THEN [AppState.sortConfig EXCEPT
                         !.direction = IF AppState.sortConfig.direction = "asc"
                                       THEN "desc" ELSE "asc"]
                ELSE [column |-> column, direction |-> "asc"]
        IN  AppState' = updateTable([AppState EXCEPT !.sortConfig = sortConfig],
                                    toLowerCase(searchInput), filterRisk)
    /\ pc' = "sort"
    /\ ret' = <<>>
    /\ UNCHANGED <<inputs, uploadStatus, timers, now, shownAt, customer, args>>

\* lines 1214-1220: a click on a page button that is not disabled
PageClick ==
    /\ \E button \in pageButtons(AppState) :
        /\ button <= MaxPage
        /\ AppState' = [AppState EXCEPT !.pagination.currentPage = button]
    /\ pc' = "pagination"
    /\ ret' = <<>>
    /\ UNCHANGED <<inputs, uploadStatus, timers, now, shownAt, customer, args>>

\* the operations on the data and on the table, while no time passes
NextTable ==
    \/ LoadSampleData
    \/ ClearData
    \/ UploadComplete
    \/ UploadError
    \/ SearchInput
    \/ FilterRiskChange
    \/ SortClick
    \/ PageClick

SpecTable == InitApp /\ [][NextTable]_vars

-----------------------------------------------------------------------------
(* Claims about the page                                                   *)

(* C20: every status message displayed by showUploadStatus stays displayed *)
(* until 5 seconds after it was shown: when two messages are shown less    *)
(* than 5 seconds apart, the second one is not cleared by the timer        *)
(* started for the first.                                                  *)
C20_DisplayedFiveSeconds ==
    (shownAt >= 0 /\ now < shownAt + StatusTimeout) => uploadStatus.textContent # ""

-----------------------------------------------------------------------------
(* Pairs of records, one with scores at least as high as the other         *)

\* each tier threshold and a grid point below it: the scores at which a tier
\* begins and ends
PairScores ==
    {[n |-> RISK_THRESHOLDS[t] * Resolution - k, d |-> Resolution] :
        t \in {"low", "moderate", "elevated"}, k \in {0, Delta}}

\* the pairs <<lower, higher>> of scores
OrderedScores == {p \in PairScores \X PairScores : p[1].n <= p[2].n}

\* the two records of a pair, built from the pairs of scores of each criterion
pairOf(t, a, e, b) ==
    [fn |-> "pair",
     r1 |-> [customer_id         |-> "CUST-0001",
             transaction_history |-> t[1],
             affordability       |-> a[1],
             employment          |-> e[1],
             behavior            |-> b[1]],
     r2 |-> [customer_id         |-> "CUST-0002",
             transaction_history |-> t[2],
             affordability       |-> a[2],
             employment          |-> e[2],
             behavior            |-> b[2]]]

InitPair ==
    /\ \E t \in OrderedScores, a \in OrderedScores, e \in OrderedScores,
          b \in OrderedScores : args = pairOf(t, a, e, b)
    /\ pc = "ready"
    /\ ret = <<>>
    /\ InitPage
    /\ customer = <<>>

\* determineDecision called on both records
CallDetermineDecisionPair ==
    /\ pc = "ready"
    /\ args.fn = "pair"
    /\ pc' = "determineDecision pair"
    /\ ret' = [r1 |-> determineDecision(args.r1), r2 |-> determineDecision(args.r2)]
    /\ UNCHANGED <<customer, args, page>>

NextPair == CallDetermineDecisionPair

SpecPair == InitPair /\ [][NextPair]_vars

\* the order Auto Deny < Elevated Risk < Manual Review < Auto Approve
DecisionRank(decision) ==
    CASE decision = "Auto Deny"     -> 0
      [] decision = "Elevated Risk" -> 1
      [] decision = "Manual Review" -> 2
      [] decision = "Auto Approve"  -> 3

(* C24: determineDecision is monotonic in the scores: for all records r1,  *)
(* r2 where each of the four scores of r2 is at least the corresponding    *)
(* score of r1, the decision of r2 is never worse than the decision of r1  *)
(* in the order Auto Deny < Elevated Risk < Manual Review < Auto Approve.  *)
C24_DecisionMonotonic ==
    (/\ pc = "determineDecision pair"
     /\ \A f \in Criteria : ~Less(args.r2[f], args.r1[f])) =>
        DecisionRank(ret.r1) <= DecisionRank(ret.r2)

\* three Elevated criteria against two: both records are denied
C24_Witness ==
    /\ pc = "determineDecision pair"
    /\ Cardinality({f \in Criteria : getCriteriaRisk(args.r1[f]) = "elevated"}) = 3
    /\ Cardinality({f \in Criteria : getCriteriaRisk(args.r2[f]) = "elevated"}) = 2
    /\ \E f \in Criteria : Less(args.r1[f], args.r2[f])
    /\ ret.r1 = "Auto Deny"
    /\ ret.r2 = "Auto Deny"

\* Math.max(1, Math.ceil(|filteredData| / itemsPerPage))
LastPage == IF totalPages(AppState) < 1 THEN 1 ELSE totalPages(AppState)

(* C21: after any sequence of load-sample, CSV-upload, clear-data, search, *)
(* risk-filter, sort and pagination-click operations, currentPage lies in  *)
(* 1..max(1, ceil(|filteredData| / itemsPerPage)), so a non-empty          *)
(* filteredData is never rendered as the No records match your filters     *)
(* placeholder.                                                            *)
C21_CurrentPageInRange ==
    /\ AppState.pagination.currentPage \in 1..LastPage
    /\ Len(AppState.filteredData) > 0 => Len(pageData(AppState)) > 0

\* record r occurs in the sequence of records
Occurs(r, records) == \E i \in 1..Len(records) : records[i] = r

(* C22: after any sequence of load-sample, CSV-upload (successful or       *)
(* failed) and clear-data operations, processedData equals                 *)
(* processData(rawData), with the same length and record order, and        *)
(* filteredData after each updateTable holds only records of               *)
(* processedData.                                                          *)
C22_ProcessedFollowsRaw ==
    /\ AppState.processedData = processData(AppState.rawData)
    /\ Len(AppState.processedData) = Len(AppState.rawData)
    /\ \A i \in 1..Len(AppState.rawData) :
        AppState.processedData[i].customer_id = AppState.rawData[i].customer_id
    /\ \A i \in 1..Len(AppState.filteredData) :
        Occurs(AppState.filteredData[i], AppState.processedData)

\* a file has been loaded over the data on display, which were sorted
C22_Witness ==
    /\ pc = "processCSVFile"
    /\ ret.loaded
    /\ AppState.sortConfig.column # null
    /\ AppState.rawData = ret.data
    /\ Len(AppState.processedData) = Len(ret.data)
    /\ Len(AppState.filteredData) > 0

(* C23: a CSV upload that fails (parse error, a missing required column,   *)
(* or zero valid rows) leaves rawData, processedData, filteredData,        *)
(* sortConfig and pagination unchanged and reports an error status; the    *)
(* dataset loaded before remains displayed.                                *)
C23_FailedUploadKeepsState ==
    [][(pc' = "processCSVFile" /\ ~ret'.loaded) =>
          /\ AppState' = AppState
          /\ pageData(AppState') = pageData(AppState)
          /\ uploadStatus'.className = "upload-status error"
          /\ uploadStatus'.textContent = ret'.message]_vars

\* a file without a valid row was refused while sample data were on display
C23_Witness ==
    /\ pc = "processCSVFile"
    /\ ~ret.loaded
    /\ ret.message = "No valid data found in file"
    /\ Len(AppState.rawData) = SampleSize
    /\ Len(pageData(AppState)) > 0
    /\ uploadStatus.className = "upload-status error"

====
